---------------------------- MODULE Spec2Model ----------------------------
(***************************************************************************)
(* Neural Intent Engine of Nova-System-AI: the word tokenizer, the loading *)
(* of vocabulary and weights by NeuralIntentEngine, the trainers that      *)
(* write those files, and the classify -> gate -> act pipeline of          *)
(* intent_engine.run_cmd and NovaCLI._handle_neural_intent with the        *)
(* PermissionGate.                                                         *)
(*                                                                         *)
(* A text is a sequence of tokens (the text is the tokens joined by one    *)
(* blank).  A confidence is a percentage 0..100 (0.75 is 75).  The numeric *)
(* forward pass is modelled by its shape: which rows of the embedding      *)
(* matrix it reads and which matrices it needs; the probabilities it       *)
(* returns are an input of the call.                                       *)
(***************************************************************************)
EXTENDS Integers, Sequences, FiniteSets, TLC

\* ------------------------------------------------------------------ bounds

\* Longest text (in tokens) of a command or of a dataset entry.
MaxTextLen == 2
\* Most entries of one label in a training dataset.
MaxPerLabel == 1
\* Most training runs before the engine is started.
MaxTrainRuns == 1
\* Most commands one process serves.
MaxCmds == 2
\* Most direct calls of execute_intent in the gate-only specification.
MaxExecCalls == 3
\* Concurrent callers of process_command on one engine.
NumThreads == 2
\* Longest text (in tokens) of a concurrent call.
MaxThreadTextLen == 1
\* Longest text (in tokens) handed to encode directly.
MaxEncodeLen == 13
\* Most entries of one label in a dataset handed to the balancing step alone.
MaxBinLen == 2
\* Most entries of one label in the balanced dataset of the epoch loop.
MaxSamples == 2
\* Most steps of the training loop followed one by one.
MaxSteps == 5
\* Most phrases of a command that is made of keywords.
MaxPhrases == 2

\* ------------------------------------------------------- program constants

\* encode(text, max_len=12)
MaxLen == 12
\* TinyTransformerClassifier(vocab_size=1000) in the engine and the gold trainer
EngineVocabRows == 1000
\* TinyTransformerClassifier(vocab_size=500) in engine_training/train.py
ProtoVocabRows == 500
\* num_classes=5
NumClasses == 5
\* the confidence threshold 0.75, as a percentage
Threshold == 75
\* epochs = 300 of train_gold_standard
Epochs == 300
\* if epoch % 50 == 0
ReportEvery == 50

\* ------------------------------------------------------------------- words

PAD == "[PAD]"
UNK == "[UNK]"

\* standard_words of engine_core/tokenizer.py
StandardWords ==
    << "lock", "computer", "system", "status", "volume", "up", "down",
       "increase", "decrease", "make", "quieter", "louder", "check",
       "laptop", "screen", "machine", "battery", "cpu", "usage" >>

\* the word list of unified_train.py's own tokenizer
UnifiedWords ==
    << "lock", "computer", "system", "status", "volume", "up", "down", "check" >>

\* The tokens a text is made of.  "Hello" is the only one with an upper-case
\* letter.
InputTokens == {"lock", "status", "restart", "Hello"}

\* str.lower() on a token
Lower(t) == IF t = "Hello" THEN "hello" ELSE t

Texts == UNION { [1..n -> InputTokens] : n \in 0..MaxTextLen }

\* re.findall(r'\w+', text.lower().strip()): the lower-cased tokens in order
FindWords(txt) == [i \in 1..Len(txt) |-> Lower(txt[i])]

\* ---------------------------------------------------------------- helpers

Min(a, b) == IF a < b THEN a ELSE b

\* d[k] = v on a Python dict
Put(d, k, v) == [x \in (DOMAIN d) \cup {k} |-> IF x = k THEN v ELSE d[x]]

EmptyDict == [x \in {} |-> 0]

\* --------------------------------------------------------------- tokenizer

\* Mutant: _add_word skips an id.
AddWordSkip(tok, word) ==
    IF word \notin DOMAIN tok.word_to_id
    THEN [ word_to_id |-> Put(tok.word_to_id, word, tok.vocab_size + 1),
           id_to_word |-> Put(tok.id_to_word, tok.vocab_size + 1, word),
           vocab_size |-> tok.vocab_size + 2 ]
    ELSE tok

\* SimpleWordTokenizer._add_word
AddWord(tok, word) ==
    IF word \notin DOMAIN tok.word_to_id
    THEN [ word_to_id |-> Put(tok.word_to_id, word, tok.vocab_size),
           id_to_word |-> Put(tok.id_to_word, tok.vocab_size, word),
           vocab_size |-> tok.vocab_size + 1 ]
    ELSE tok

RECURSIVE AddWords(_, _, _)
AddWords(tok, words, i) ==
    IF i > Len(words) THEN tok
    ELSE AddWords(AddWord(tok, words[i]), words, i + 1)

\* SimpleWordTokenizer.__init__ (words: the pre-populated list)
NewTokenizer(words) ==
    AddWords([ word_to_id |-> (PAD :> 0) @@ (UNK :> 1),
               id_to_word |-> (0 :> PAD) @@ (1 :> UNK),
               vocab_size |-> 2 ], words, 1)

\* The loop of encode over words[i..], from tokenizer state tok with ids so far.
RECURSIVE EncodeLoop(_, _, _, _)
EncodeLoop(tok, words, i, ids) ==
    IF i > Len(words) THEN [tok |-> tok, ids |-> ids]
    ELSE LET t1 == IF words[i] \notin DOMAIN tok.word_to_id
                   THEN AddWord(tok, words[i]) ELSE tok
         IN  EncodeLoop(t1, words, i + 1, Append(ids, t1.word_to_id[words[i]]))

\* Mutant: encode loops over every word and cuts the ids to max_len afterwards.
EncodeCutAfter(tok, txt, max_len) ==
    LET r   == EncodeLoop(tok, FindWords(txt), 1, << >>)
        ids == SubSeq(r.ids, 1, Min(Len(r.ids), max_len))
    IN  [ tok |-> r.tok,
          ids |-> ids \o [i \in 1..(max_len - Len(ids)) |-> 0] ]

\* SimpleWordTokenizer.encode: the ids padded to max_len, and the tokenizer after
Encode(tok, txt, max_len) ==
    LET all   == FindWords(txt)
        words == SubSeq(all, 1, Min(Len(all), max_len))
        r     == EncodeLoop(tok, words, 1, << >>)
    IN  [ tok |-> r.tok,
          ids |-> r.ids \o [i \in 1..(max_len - Len(r.ids)) |-> 0] ]

\* SimpleWordTokenizer.decode: the words of the ids that are not PAD
RECURSIVE Decode(_, _)
Decode(tok, ids) ==
    IF ids = << >> THEN << >>
    ELSE LET rest == Decode(tok, Tail(ids))
         IN  IF Head(ids) = 0 THEN rest
             ELSE << IF Head(ids) \in DOMAIN tok.id_to_word
                     THEN tok.id_to_word[Head(ids)] ELSE UNK >> \o rest


\* ------------------------------------------------------------------- files

NoVocabFile == [exists |-> FALSE, word_to_id |-> EmptyDict]
NoWeightsFile == [exists |-> FALSE, rows |-> 0, cols |-> 0, full |-> FALSE]

\* json.dump(tokenizer.word_to_id, f)
VocabFileOf(tok) == [exists |-> TRUE, word_to_id |-> tok.word_to_id]

\* model.save / np.savez: the shape of what is written.  rows: the rows of w_tok;
\* cols: the columns of w_final; full: w_pos and the layer matrices are in it.
WeightsFileOf(rows, cols, full) ==
    [exists |-> TRUE, rows |-> rows, cols |-> cols, full |-> full]

\* ---------------------------------------------------------------- datasets

Labels == 0..(NumClasses - 1)

\* The texts of dataset entries.
TrainTexts == { << "hello" >>, << "restart", "lock" >> }

BinSeqs == UNION { [1..n -> TrainTexts] : n \in 0..MaxPerLabel }

RECURSIVE ConcatBins(_, _)
ConcatBins(bins, l) ==
    IF l >= NumClasses THEN << >>
    ELSE [i \in 1..Len(bins[l]) |-> [text |-> bins[l][i], label |-> l]]
         \o ConcatBins(bins, l + 1)

\* The datasets: entries grouped by label, as generate_data.create_dataset writes
\* them.
Datasets == { ConcatBins(bins, 0) : bins \in [Labels -> BinSeqs] }

\* A dataset entry is a record whose fields are the keys of the JSON object.
HasText(d) == "text" \in DOMAIN d
HasLabel(d) == "label" \in DOMAIN d

\* One entry of text t for every label.
CompleteDataset(t) == [k \in 1..NumClasses |-> [text |-> t, label |-> k - 1]]

\* Entries without text, without label, and with a label that is no intent.
BadEntries ==
    { [label |-> 0],
      [text |-> << "hello" >>],
      [text |-> << "hello" >>, label |-> NumClasses],
      [text |-> << "hello" >>, label |-> -1] }

\* The datasets with one such entry, at the front or at the end.
BadDatasets ==
    UNION { { << bad >> \o CompleteDataset(t), CompleteDataset(t) \o << bad >> } :
            bad \in BadEntries, t \in TrainTexts }

\* The datasets a training run may find.
AllDatasets == Datasets \cup BadDatasets

\* data has an entry that lacks text or label, or whose label is no intent.
Malformed(data) ==
    \E i \in DOMAIN data :
        ~HasText(data[i]) \/ ~HasLabel(data[i]) \/ data[i].label \notin Labels

\* intent_bins of train_gold_standard: the entries of label l, in file order
Bin(data, l) == SelectSeq(data, LAMBDA d : d.label = l)

RECURSIVE Repeat(_, _)
Repeat(s, n) == IF n <= 0 THEN << >> ELSE s \o Repeat(s, n - 1)

RECURSIVE MaxOf(_)
MaxOf(S) ==
    LET x == CHOOSE y \in S : TRUE
    IN  IF S = {x} THEN x
        ELSE LET m == MaxOf(S \ {x}) IN IF x > m THEN x ELSE m

\* samples * (max_samples // len(samples)) + samples[:max_samples % len(samples)]
Oversample(samples, max_samples) ==
    Repeat(samples, max_samples \div Len(samples))
    \o SubSeq(samples, 1, max_samples % Len(samples))

RECURSIVE BalanceFrom(_, _, _)
BalanceFrom(data, max_samples, l) ==
    IF l >= NumClasses THEN << >>
    ELSE Oversample(Bin(data, l), max_samples) \o BalanceFrom(data, max_samples, l + 1)

\* balanced_data of train_gold_standard (every bin is non-empty)
Balance(data) ==
    BalanceFrom(data, MaxOf({Len(Bin(data, l)) : l \in Labels}), 0)

TextsOf(data) == {data[i].text : i \in {j \in DOMAIN data : HasText(data[j])}}

\* The orders in which the distinct texts of data can first come up after
\* random.shuffle(data).
RECURSIVE OrdersOf(_)
OrdersOf(S) ==
    IF S = {} THEN { << >> }
    ELSE UNION { { << t >> \o o : o \in OrdersOf(S \ {t}) } : t \in S }

\* The first occurrences of the texts of data, in file order.
RECURSIVE FirstTexts(_, _, _)
FirstTexts(data, i, seen) ==
    IF i > Len(data) THEN << >>
    ELSE IF data[i].text \in seen THEN FirstTexts(data, i + 1, seen)
    ELSE << data[i].text >> \o FirstTexts(data, i + 1, seen \cup {data[i].text})

\* tokenizer.encode over every text of texts in order: the tokenizer after
RECURSIVE EncodeAll(_, _, _)
EncodeAll(tok, texts, i) ==
    IF i > Len(texts) THEN tok
    ELSE EncodeAll(Encode(tok, texts[i], MaxLen).tok, texts, i + 1)

\* The largest id some word has.
MaxId(tok) ==
    LET ids == {tok.word_to_id[w] : w \in DOMAIN tok.word_to_id}
    IN  CHOOSE m \in ids : \A k \in ids : k <= m

\* ---------------------------------------------------------------- trainers
\* A run's outcome: what it leaves in the two files, and how it ended
\* ("saved", "no dataset" for a run that returns without training, or the
\* exception that ended it).

\* wrote: the files the run wrote ("vocab", "weights").
WroteOutcome(end, vf, wf, wrote) ==
    [end |-> end, vocab |-> vf, weights |-> wf, wrote |-> wrote]

\* A run that ends without writing a file.
RunOutcome(end, vf, wf) == WroteOutcome(end, vf, wf, {})

\* test_case / test_cmd of train_gold_standard
VerificationText == << "lock", "the", "computer" >>

\* gold_standard_train.train_gold_standard on dataset file `present`/`data`,
\* with the first epoch meeting the distinct texts in `order`.
TrainGoldStandard(present, data, order, vf, wf) ==
    IF ~present THEN RunOutcome("no dataset", vf, wf)
    \* intent_bins[d["label"]]
    ELSE IF \E i \in DOMAIN data : ~HasLabel(data[i]) \/ data[i].label \notin Labels
    THEN RunOutcome("KeyError", vf, wf)
    ELSE IF \E l \in Labels : Len(Bin(data, l)) = 0
    THEN RunOutcome("ZeroDivisionError", vf, wf)
    \* d["text"] in the first epoch
    ELSE IF \E i \in DOMAIN data : ~HasText(data[i])
    THEN RunOutcome("KeyError", vf, wf)
    ELSE LET tok  == EncodeAll(NewTokenizer(StandardWords), order, 1)
             \* the Final Verification encodes its test case after the first save
             tok2 == Encode(tok, VerificationText, MaxLen).tok
             wts  == WeightsFileOf(EngineVocabRows, NumClasses, TRUE)
         IN  IF MaxId(tok) >= EngineVocabRows
             THEN RunOutcome("IndexError", vf, wf)
             ELSE IF MaxId(tok2) >= EngineVocabRows
             THEN WroteOutcome("IndexError", VocabFileOf(tok), wts, {"vocab", "weights"})
             ELSE WroteOutcome("saved", VocabFileOf(tok2), wts, {"vocab", "weights"})

\* engine_training/train.py train: saves the weights only
TrainPrototype(present, data, order, vf, wf) ==
    IF ~present THEN RunOutcome("FileNotFoundError", vf, wf)
    \* d["text"], d["label"] in the first epoch
    ELSE IF \E i \in DOMAIN data : ~HasText(data[i]) \/ ~HasLabel(data[i])
    THEN RunOutcome("KeyError", vf, wf)
    \* w_final[:, target]: a column index of -num_classes..num_classes-1
    ELSE IF \E i \in DOMAIN data : data[i].label \notin (-NumClasses)..(NumClasses - 1)
    THEN RunOutcome("IndexError", vf, wf)
    ELSE LET tok == EncodeAll(NewTokenizer(StandardWords), order, 1)
         IN  IF MaxId(tok) >= ProtoVocabRows
             THEN RunOutcome("IndexError", vf, wf)
             ELSE IF Len(data) = 0
             THEN RunOutcome("ZeroDivisionError", vf, wf)
             ELSE WroteOutcome("saved", vf,
                               WeightsFileOf(ProtoVocabRows, NumClasses, TRUE),
                               {"weights"})

\* unified_train.train_brain: its own tokenizer and a two-matrix model whose
\* w_tok has tokenizer.vocab_size rows after the dataset was encoded once
TrainBrain(present, data, vf, wf) ==
    IF ~present THEN RunOutcome("no dataset", vf, wf)
    \* d["text"] when the tokenizer is pre-trained, d["label"] in the first epoch
    ELSE IF \E i \in DOMAIN data : ~HasText(data[i]) \/ ~HasLabel(data[i])
    THEN RunOutcome("KeyError", vf, wf)
    \* probs[target]: an index of -num_classes..num_classes-1
    ELSE IF \E i \in DOMAIN data : data[i].label \notin (-NumClasses)..(NumClasses - 1)
    THEN RunOutcome("IndexError", vf, wf)
    ELSE LET tok == EncodeAll(NewTokenizer(UnifiedWords),
                              FirstTexts(data, 1, {}), 1)
         IN  IF Len(data) = 0
             THEN RunOutcome("ZeroDivisionError", vf, wf)
             ELSE WroteOutcome("saved", VocabFileOf(tok),
                               WeightsFileOf(tok.vocab_size, NumClasses, FALSE),
                               {"vocab", "weights"})

\* ------------------------------------------------------------------ engine

\* {i: w for w, i in word_to_id.items()}
Inverse(d) ==
    [i \in {d[w] : w \in DOMAIN d} |-> CHOOSE w \in DOMAIN d : d[w] = i]

\* NeuralIntentEngine.__init__: the tokenizer.  A vocabulary file replaces
\* word_to_id and id_to_word; vocab_size keeps the value the constructor of
\* the tokenizer left.
EngineTokenizer(vf) ==
    LET tok == NewTokenizer(StandardWords)
    IN  IF vf.exists
        THEN [ word_to_id |-> vf.word_to_id,
               id_to_word |-> Inverse(vf.word_to_id),
               vocab_size |-> tok.vocab_size ]
        ELSE tok

\* NeuralIntentEngine.__init__: the parameters.  model.load replaces the whole
\* dict by what the file holds.
EngineParams(wf) ==
    IF wf.exists
    THEN [rows |-> wf.rows, cols |-> wf.cols, full |-> wf.full]
    ELSE [rows |-> EngineVocabRows, cols |-> NumClasses, full |-> TRUE]

\* TinyTransformerClassifier.forward on ids x: the exception it raises, or "none".
\* w_tok[x] is evaluated first, then w_pos.
ForwardError(prm, x) ==
    IF \E i \in DOMAIN x : x[i] >= prm.rows THEN "IndexError"
    ELSE IF ~prm.full THEN "KeyError"
    ELSE "none"

\* Mutant: the INTENTS table names the ids 5, 6 and 7 too.
IntentNameWide(id) ==
    CASE id = 0 -> "LOCK_SYSTEM"
      [] id = 1 -> "VOLUME_UP"
      [] id = 2 -> "VOLUME_DOWN"
      [] id = 3 -> "SYSTEM_STATUS"
      [] id = 5 -> "SHUTDOWN_SYSTEM"
      [] id = 6 -> "RESTART_SYSTEM"
      [] id = 7 -> "SLEEP_SYSTEM"
      [] OTHER  -> "UNKNOWN"

\* INTENTS.get(intent_id, "UNKNOWN")
IntentName(id) ==
    CASE id = 0 -> "LOCK_SYSTEM"
      [] id = 1 -> "VOLUME_UP"
      [] id = 2 -> "VOLUME_DOWN"
      [] id = 3 -> "SYSTEM_STATUS"
      [] OTHER  -> "UNKNOWN"

\* The confidences a forward pass is given to return: the largest of cols
\* probabilities is at least 1/cols.
ConfLevels == {20, 74, 75, 100}

NoResult == [intent_id |-> -1, intent_name |-> "", confidence |-> -1]

\* The dict process_command returns for argmax id and its probability conf.
Result(id, conf) ==
    [intent_id |-> id, intent_name |-> IntentName(id), confidence |-> conf]


\* --------------------------------------------------------- permission gate

\* The answers typed at a prompt.
Answers == {"y", "Y", " y ", "n", "", "yes"}

\* input(...).lower().strip()
Normalize(ans) == IF ans \in {"y", "Y", " y "} THEN "y" ELSE ans

\* Mutant: "yes" counts as a confirmation too.
AskPermissionYes(ans) == Normalize(ans) \in {"y", "yes"}

\* Mutant: the empty answer counts as a confirmation too.
AskPermissionEmpty(ans) == Normalize(ans) \in {"y", ""}

\* PermissionGate.ask_permission with ans typed at its prompt
AskPermission(ans) == Normalize(ans) = "y"

\* The ids PermissionGate.execute_intent has a branch for.
HandledIds == {0, 1, 2, 3, 5, 6, 7}

\* Mutant: the else branch of execute_intent starts a handler.
HandlerOfElseShutdown(id) ==
    CASE id = 0 -> "lock"
      [] id = 1 -> "volume_up"
      [] id = 2 -> "volume_down"
      [] id = 3 -> "status"
      [] id = 5 -> "shutdown"
      [] id = 6 -> "restart"
      [] id = 7 -> "sleep"
      [] OTHER  -> "shutdown"

\* The branch of execute_intent taken for id: the handler it starts.
HandlerOf(id) ==
    CASE id = 0 -> "lock"
      [] id = 1 -> "volume_up"
      [] id = 2 -> "volume_down"
      [] id = 3 -> "status"
      [] id = 5 -> "shutdown"
      [] id = 6 -> "restart"
      [] id = 7 -> "sleep"
      [] OTHER  -> "none"

\* Mutant: execute_intent lets the exception of its handler through.
ExecuteIntentRaises(id, hfail) ==
    [ id       |-> id,
      handler  |-> HandlerOf(id),
      warned   |-> id \notin HandledIds,
      reported |-> FALSE,
      raised   |-> id \in HandledIds /\ hfail ]

\* PermissionGate.execute_intent(intent_id), the started handler raising when
\* hfail: the handler it started, whether it printed the warning of the else
\* branch, whether it printed an execution error, whether it raised.
ExecuteIntent(id, hfail) ==
    [ id       |-> id,
      handler  |-> HandlerOf(id),
      warned   |-> id \notin HandledIds,
      reported |-> id \in HandledIds /\ hfail,
      raised   |-> FALSE ]

\* Mutant: the gate forgets the UNKNOWN check.
ShouldPromptAnyName(intent_name, confidence) == confidence >= Threshold

\* Mutant: the gate uses > where the code uses >=.
ShouldPromptAbove(intent_name, confidence) ==
    confidence > Threshold /\ intent_name # "UNKNOWN"

\* The condition of run_cmd and of _handle_neural_intent before the prompt.
ShouldPrompt(intent_name, confidence) ==
    confidence >= Threshold /\ intent_name # "UNKNOWN"

\* ------------------------------------------- keywords of the CLI handler

\* The keywords and trigger words that occur inside lower-cased token t.
WordsInside(t) ==
    CASE t = "restart"  -> {"restart"}
      [] t = "shutdown" -> {"shutdown"}
      [] t = "sleep"    -> {"sleep"}
      [] t = "asleep"   -> {"sleep"}
      [] t = "status"   -> {"status"}
      [] t = "stats"    -> {"stats"}
      [] t = "info"     -> {"info"}
      [] t = "health"   -> {"health"}
      [] t = "report"   -> {"report"}
      [] OTHER          -> {}

\* kw in user_input.lower(), for a keyword without a blank
Contains(txt, kw) == \E i \in DOMAIN txt : kw \in WordsInside(Lower(txt[i]))

\* 'turn off' in user_input.lower(): a token ending in "turn", one blank, a
\* token starting with "off"
ContainsTurnOff(txt) ==
    \E i \in 1..(Len(txt) - 1) :
        Lower(txt[i]) \in {"turn", "return"} /\ Lower(txt[i + 1]) \in {"off", "office"}

\* Mutant: the interception looks for shutdown before restart.
OverrideShutdownFirst(txt, r) ==
    IF Contains(txt, "shutdown") \/ ContainsTurnOff(txt)
    THEN [intent_id |-> 5, intent_name |-> "SHUTDOWN_SYSTEM", confidence |-> 100]
    ELSE IF Contains(txt, "restart")
    THEN [intent_id |-> 6, intent_name |-> "RESTART_SYSTEM", confidence |-> 100]
    ELSE IF Contains(txt, "sleep")
    THEN [intent_id |-> 7, intent_name |-> "SLEEP_SYSTEM", confidence |-> 100]
    ELSE r

\* The MANUAL INTERCEPTION of _handle_neural_intent on the result r of the engine.
Override(txt, r) ==
    IF Contains(txt, "restart")
    THEN [intent_id |-> 6, intent_name |-> "RESTART_SYSTEM", confidence |-> 100]
    ELSE IF Contains(txt, "shutdown") \/ ContainsTurnOff(txt)
    THEN [intent_id |-> 5, intent_name |-> "SHUTDOWN_SYSTEM", confidence |-> 100]
    ELSE IF Contains(txt, "sleep")
    THEN [intent_id |-> 7, intent_name |-> "SLEEP_SYSTEM", confidence |-> 100]
    ELSE r

TriggerWords == {"status", "info", "health", "report", "stats"}

\* The strict mode of _handle_neural_intent: SYSTEM_STATUS without a trigger word
\* in the input is not taken over.
StrictModeBlocks(txt, intent_name) ==
    intent_name = "SYSTEM_STATUS" /\ ~ \E w \in TriggerWords : Contains(txt, w)


\* ------------------------------------------------------------------- state

VARIABLES
    vocab_file,     \* workspace/engine_core/vocab.json
    weights_file,   \* workspace/engine_core/model_weights.npz
    train_runs,     \* training runs so far
    last_run,       \* the last training run: its trainer, how it ended, what it wrote
    phase,          \* "offline", "serving", or "dead" after an uncaught exception
    host,           \* "none", "run_cmd", "cli", "gate" or "threads"
    nie,            \* an engine was constructed (self.nie / engine)
    rich,           \* RICH_AVAILABLE and console
    tokenizer,      \* engine.tokenizer: word_to_id, id_to_word, vocab_size
    params,         \* engine.model.params, by shape
    cmds,           \* commands taken up so far
    text,           \* the command being handled
    encoded,        \* the ids handed to model.forward for it
    cls,            \* what process_command returned for it
    res,            \* res of the handler: cls, or what the override made of it
    gate,           \* "none", or the outcome "pass" / "fail" of the gate condition
    answer,         \* the answer typed at the confirmation prompt
    exec_calls,     \* the calls of execute_intent made for the command
    trail,          \* the states the command went through
    ret,            \* what _handle_neural_intent returned ("none" until it does)
    error,          \* the exception process_command raised, or "none"
    threads,        \* the concurrent callers of process_command
    balance,        \* the Dataset Balancing step: raw_data, balanced_data, its end
    training        \* the training loop of train_gold_standard: its position and locals

vars == << vocab_file, weights_file, train_runs, last_run, phase, host, nie, rich,
           tokenizer, params, cmds, text, encoded, cls, res, gate, answer,
           exec_calls, trail, ret, error, threads, balance, training >>

diskVars == << vocab_file, weights_file, train_runs, last_run, balance, training >>
engineVars == << tokenizer, params >>
cmdVars == << text, encoded, cls, res, gate, answer, exec_calls, trail, ret, error >>

NoAnswer == "<none>"
NoBalance == [stage |-> "none", data |-> << >>, balanced |-> << >>, end |-> "none"]
\* No training loop is running.
NoTraining == [stage |-> "none"]
NoRun == [trainer |-> "none", end |-> "none", wrote |-> {}, malformed |-> FALSE]
NoTokenizer == [word_to_id |-> EmptyDict, id_to_word |-> EmptyDict, vocab_size |-> 0]
NoParams == [rows |-> 0, cols |-> 0, full |-> FALSE]

\* The position of the command in the gate's state machine.
Stage == trail[Len(trail)]

CmdInit ==
    /\ text = << >>
    /\ encoded = << >>
    /\ cls = NoResult
    /\ res = NoResult
    /\ gate = "none"
    /\ answer = NoAnswer
    /\ exec_calls = << >>
    /\ trail = << "Idle" >>
    /\ ret = "none"
    /\ error = "none"

\* The handler's variables as the next command finds them.
CmdReset ==
    /\ text' = << >>
    /\ encoded' = << >>
    /\ cls' = NoResult
    /\ res' = NoResult
    /\ gate' = "none"
    /\ answer' = NoAnswer
    /\ exec_calls' = << >>
    /\ trail' = << "Idle" >>
    /\ ret' = "none"
    /\ error' = "none"

Init ==
    /\ vocab_file = NoVocabFile
    /\ weights_file = NoWeightsFile
    /\ train_runs = 0
    /\ last_run = NoRun
    /\ balance = NoBalance
    /\ training = NoTraining
    /\ phase = "offline"
    /\ host = "none"
    /\ nie = FALSE
    /\ rich = FALSE
    /\ tokenizer = NoTokenizer
    /\ params = NoParams
    /\ cmds = 0
    /\ threads = << >>
    /\ CmdInit

\* ---------------------------------------------------------- training runs

\* A training run ends as out tells; malformed: its dataset had a malformed entry.
Trained(trainer, malformed, out) ==
    /\ vocab_file' = out.vocab
    /\ weights_file' = out.weights
    /\ train_runs' = train_runs + 1
    /\ last_run' = [trainer |-> trainer, end |-> out.end, wrote |-> out.wrote,
                    malformed |-> malformed]
    /\ UNCHANGED << balance, training >>
    /\ UNCHANGED << phase, host, nie, rich, cmds, threads >>
    /\ UNCHANGED engineVars
    /\ UNCHANGED cmdVars

CanTrain == phase = "offline" /\ train_runs < MaxTrainRuns

\* A run as the action below takes it: whether its dataset was malformed, and its
\* outcome when it found neither file on disk.
RunOf(data, out) == [malformed |-> Malformed(data), out |-> out]

\* The runs of gold_standard_train.py: without dataset file, and on every dataset
\* with every order of its texts.
GoldRuns ==
    { RunOf(<< >>, TrainGoldStandard(FALSE, << >>, << >>, NoVocabFile, NoWeightsFile)) }
    \cup UNION { { RunOf(data, TrainGoldStandard(TRUE, data, order,
                                                 NoVocabFile, NoWeightsFile)) :
                     order \in OrdersOf(TextsOf(data)) } :
                 data \in AllDatasets }

\* The runs of engine_training/train.py.
PrototypeRuns ==
    { RunOf(<< >>, TrainPrototype(FALSE, << >>, << >>, NoVocabFile, NoWeightsFile)) }
    \cup UNION { { RunOf(data, TrainPrototype(TRUE, data, order,
                                              NoVocabFile, NoWeightsFile)) :
                     order \in OrdersOf(TextsOf(data)) } :
                 data \in AllDatasets }

\* The runs of unified_train.py.
BrainRuns ==
    { RunOf(<< >>, TrainBrain(FALSE, << >>, NoVocabFile, NoWeightsFile)) }
    \cup { RunOf(data, TrainBrain(TRUE, data, NoVocabFile, NoWeightsFile)) :
             data \in AllDatasets }

\* The outcome out with the files the run did not write as they are on disk.
OnDisk(out) ==
    [out EXCEPT !.vocab   = IF "vocab" \in out.wrote THEN out.vocab ELSE vocab_file,
                !.weights = IF "weights" \in out.wrote THEN out.weights ELSE weights_file]

\* python gold_standard_train.py
RunTrainGoldStandard ==
    /\ CanTrain
    /\ \E r \in GoldRuns : Trained("gold", r.malformed, OnDisk(r.out))

\* python engine_training/train.py
RunTrainPrototype ==
    /\ CanTrain
    /\ \E r \in PrototypeRuns : Trained("prototype", r.malformed, OnDisk(r.out))

\* python unified_train.py
RunTrainBrain ==
    /\ CanTrain
    /\ \E r \in BrainRuns : Trained("brain", r.malformed, OnDisk(r.out))

\* ------------------------------------------------------- process start

\* The training processes have exited: what is left of them is the two files.
TrainingOver ==
    /\ UNCHANGED << vocab_file, weights_file, balance, training >>
    /\ train_runs' = 0
    /\ last_run' = NoRun

Started(h, withEngine, r) ==
    /\ phase = "offline"
    /\ phase' = "serving"
    /\ host' = h
    /\ nie' = withEngine
    /\ rich' = r
    /\ tokenizer' = IF withEngine THEN EngineTokenizer(vocab_file) ELSE NoTokenizer
    /\ params' = IF withEngine THEN EngineParams(weights_file) ELSE NoParams
    /\ TrainingOver
    /\ UNCHANGED << cmds, threads >>
    /\ UNCHANGED cmdVars

\* python intent_engine.py: engine = NeuralIntentEngine()
StartRunCmd == Started("run_cmd", TRUE, FALSE)

\* NovaCLI.__init__: self.nie = NeuralIntentEngine() if NIE_AVAILABLE else None
StartCli == \E avail \in BOOLEAN, r \in BOOLEAN : Started("cli", avail, r)

\* ------------------------------------------------------------- run_cmd

\* NeuralIntentEngine.process_command(t) inside handler h.  An exception ends
\* the process under run_cmd; NovaCLI.run catches it and goes on.
ProcessCommand(t, h) ==
    LET enc == Encode(tokenizer, t, MaxLen)
        err == ForwardError(params, enc.ids)
    IN  /\ text' = t
        /\ cmds' = cmds + 1
        /\ tokenizer' = enc.tok
        /\ encoded' = enc.ids
        /\ error' = err
        /\ UNCHANGED << params, gate, answer, exec_calls, host, nie, rich, threads >>
        /\ UNCHANGED diskVars
        /\ IF err # "none"
           THEN /\ phase' = IF h = "run_cmd" THEN "dead" ELSE phase
                /\ ret' = IF h = "cli" THEN "raised" ELSE ret
                /\ UNCHANGED << cls, res, trail >>
           ELSE /\ \E id \in 0..(params.cols - 1), conf \in ConfLevels :
                    /\ cls' = Result(id, conf)
                    /\ res' = IF h = "cli" THEN Override(t, Result(id, conf))
                              ELSE Result(id, conf)
                /\ trail' = Append(trail, "Classified")
                /\ UNCHANGED << phase, ret >>

Serving(h) == phase = "serving" /\ host = h

\* run_cmd(text) for a text of texts: res = engine.process_command(text)
RunCmdClassifyOn(texts) ==
    /\ Serving("run_cmd") /\ Stage = "Idle" /\ cmds < MaxCmds
    /\ \E t \in texts : ProcessCommand(t, "run_cmd")

\* run_cmd: res = engine.process_command(text)
RunCmdClassify == RunCmdClassifyOn(Texts)

\* Mutant: run_cmd executes a command that passed the gate without asking.
RunCmdGateNoPrompt ==
    /\ Serving("run_cmd") /\ Stage = "Classified"
    /\ LET pass == ShouldPrompt(res.intent_name, res.confidence)
       IN  /\ gate' = IF pass THEN "pass" ELSE "fail"
           /\ trail' = Append(trail, IF pass THEN "Executed" ELSE "Rejected")
           /\ exec_calls' = IF pass THEN << ExecuteIntent(res.intent_id, FALSE) >>
                            ELSE exec_calls
    /\ UNCHANGED << text, encoded, cls, res, answer, ret, error >>
    /\ UNCHANGED << phase, host, nie, rich, cmds, threads >>
    /\ UNCHANGED diskVars
    /\ UNCHANGED engineVars

\* run_cmd: the condition before ask_permission
RunCmdGate ==
    /\ Serving("run_cmd") /\ Stage = "Classified"
    /\ LET pass == ShouldPrompt(res.intent_name, res.confidence)
       IN  /\ gate' = IF pass THEN "pass" ELSE "fail"
           /\ trail' = Append(trail, IF pass THEN "AwaitingConfirmation" ELSE "Rejected")
    /\ UNCHANGED << text, encoded, cls, res, answer, exec_calls, ret, error >>
    /\ UNCHANGED << phase, host, nie, rich, cmds, threads >>
    /\ UNCHANGED diskVars
    /\ UNCHANGED engineVars

\* Mutant: a confirmed handler calls execute_intent twice.
AnsweredTwice(ans, yes, hfail, r) ==
    /\ answer' = ans
    /\ exec_calls' = IF yes THEN exec_calls \o << ExecuteIntent(res.intent_id, hfail),
                                                   ExecuteIntent(res.intent_id, hfail) >>
                     ELSE exec_calls
    /\ trail' = Append(trail, IF yes THEN "Executed" ELSE "Aborted")
    /\ ret' = r
    /\ UNCHANGED << text, encoded, cls, res, gate, error >>
    /\ UNCHANGED << phase, host, nie, rich, cmds, threads >>
    /\ UNCHANGED diskVars
    /\ UNCHANGED engineVars

\* The end of a handler that asked for confirmation: yes tells whether it goes on
\* to execute_intent.
Answered(ans, yes, hfail, r) ==
    /\ answer' = ans
    /\ exec_calls' = IF yes THEN Append(exec_calls, ExecuteIntent(res.intent_id, hfail))
                     ELSE exec_calls
    /\ trail' = Append(trail, IF yes THEN "Executed" ELSE "Aborted")
    /\ ret' = r
    /\ UNCHANGED << text, encoded, cls, res, gate, error >>
    /\ UNCHANGED << phase, host, nie, rich, cmds, threads >>
    /\ UNCHANGED diskVars
    /\ UNCHANGED engineVars

\* run_cmd: the answer arrives; ask_permission returns and execute_intent may run
RunCmdAnswer ==
    /\ Serving("run_cmd") /\ Stage = "AwaitingConfirmation"
    /\ \E ans \in Answers, hfail \in BOOLEAN :
         Answered(ans, AskPermission(ans), hfail, ret)

\* ------------------------------------------- NovaCLI._handle_neural_intent

\* _handle_neural_intent(user_input) for an input of texts, up to the manual
\* interception
CliClassifyOn(texts) ==
    /\ Serving("cli") /\ Stage = "Idle" /\ ret = "none" /\ cmds < MaxCmds
    /\ \E t \in texts :
         IF ~nie
         THEN /\ text' = t
              /\ cmds' = cmds + 1
              /\ ret' = "false"
              /\ UNCHANGED << encoded, cls, res, gate, answer, exec_calls, trail, error >>
              /\ UNCHANGED << phase, host, nie, rich, threads >>
              /\ UNCHANGED diskVars
              /\ UNCHANGED engineVars
         ELSE ProcessCommand(t, "cli")

\* if not self.nie: return False; res = self.nie.process_command(user_input);
\* the manual interception
CliClassify == CliClassifyOn(Texts)

\* the gate condition and the strict mode for SYSTEM_STATUS
CliGate ==
    /\ Serving("cli") /\ Stage = "Classified"
    /\ LET pass == ShouldPrompt(res.intent_name, res.confidence)
           ask  == pass /\ ~StrictModeBlocks(text, res.intent_name)
       IN  /\ gate' = IF pass THEN "pass" ELSE "fail"
           /\ trail' = Append(trail, IF ask THEN "AwaitingConfirmation" ELSE "Rejected")
           /\ ret' = IF ask THEN ret ELSE "false"
    /\ UNCHANGED << text, encoded, cls, res, answer, exec_calls, error >>
    /\ UNCHANGED << phase, host, nie, rich, cmds, threads >>
    /\ UNCHANGED diskVars
    /\ UNCHANGED engineVars

\* Mutant: a declined command returns False.
CliAnswerDeclinedFalse ==
    /\ Serving("cli") /\ Stage = "AwaitingConfirmation"
    /\ \E hfail \in BOOLEAN :
         IF rich
         THEN \E ans \in {"y", "n"} :
                Answered(ans, ans = "y", hfail, IF ans = "y" THEN "true" ELSE "false")
         ELSE \E ans \in Answers :
                Answered(ans, AskPermission(ans), hfail,
                         IF AskPermission(ans) THEN "true" ELSE "false")

\* The answer arrives: Prompt.ask(choices=["y", "n"]) == "y" with rich,
\* PermissionGate.ask_permission without; both branches return True
CliAnswer ==
    /\ Serving("cli") /\ Stage = "AwaitingConfirmation"
    /\ \E hfail \in BOOLEAN :
         IF rich
         THEN \E ans \in {"y", "n"} : Answered(ans, ans = "y", hfail, "true")
         ELSE \E ans \in Answers : Answered(ans, AskPermission(ans), hfail, "true")

\* The loop of run_cmd's caller, or of NovaCLI.run, comes back to its input.
NextCommand ==
    /\ phase = "serving" /\ host \in {"run_cmd", "cli"}
    /\ \/ Stage \in {"Rejected", "Executed", "Aborted"}
       \/ host = "cli" /\ ret # "none"
    /\ CmdReset
    /\ UNCHANGED << phase, host, nie, rich, cmds, threads >>
    /\ UNCHANGED diskVars
    /\ UNCHANGED engineVars

Next ==
    \/ RunTrainGoldStandard
    \/ RunTrainPrototype
    \/ RunTrainBrain
    \/ StartRunCmd
    \/ StartCli
    \/ RunCmdClassify
    \/ RunCmdGate
    \/ RunCmdAnswer
    \/ CliClassify
    \/ CliGate
    \/ CliAnswer
    \/ NextCommand

Spec == Init /\ [][Next]_vars


\* ------------------------------------------- execute_intent called directly

\* The ids a caller passes to execute_intent.
DirectIds == -1..9

InitGate ==
    /\ vocab_file = NoVocabFile
    /\ weights_file = NoWeightsFile
    /\ train_runs = 0
    /\ last_run = NoRun
    /\ balance = NoBalance
    /\ training = NoTraining
    /\ phase = "serving"
    /\ host = "gate"
    /\ nie = FALSE
    /\ rich = FALSE
    /\ tokenizer = NoTokenizer
    /\ params = NoParams
    /\ cmds = 0
    /\ threads = << >>
    /\ CmdInit

\* PermissionGate.execute_intent(id) by a caller of the gate
ExecuteDirect ==
    /\ host = "gate" /\ Len(exec_calls) < MaxExecCalls
    /\ \E id \in DirectIds, hfail \in BOOLEAN :
         exec_calls' = Append(exec_calls, ExecuteIntent(id, hfail))
    /\ UNCHANGED << text, encoded, cls, res, gate, answer, trail, ret, error >>
    /\ UNCHANGED << phase, host, nie, rich, cmds, threads >>
    /\ UNCHANGED diskVars
    /\ UNCHANGED engineVars

NextGate == ExecuteDirect

SpecGate == InitGate /\ [][NextGate]_vars

\* ------------------------------------------------- encode called directly

\* The texts handed to encode: some words "lock", then a text of Texts.
EncodeTexts ==
    UNION { { [i \in 1..n |-> "lock"] \o tail :
                tail \in { t \in Texts : n + Len(t) <= MaxEncodeLen } } :
            n \in 0..MaxEncodeLen }

\* The vocabulary files train_gold_standard leaves.
GoldVocabFiles == { r.out.vocab : r \in GoldRuns }

\* A tokenizer a trainer constructed (nie false), or the tokenizer of an engine
\* constructed on a vocabulary file (nie true), before any call of encode.
InitEncode ==
    /\ vocab_file = NoVocabFile
    /\ weights_file = NoWeightsFile
    /\ train_runs = 0
    /\ last_run = NoRun
    /\ balance = NoBalance
    /\ training = NoTraining
    /\ phase = "serving"
    /\ host = "encode"
    /\ rich = FALSE
    /\ \/ /\ nie = FALSE
          /\ tokenizer \in {NewTokenizer(StandardWords), NewTokenizer(UnifiedWords)}
       \/ /\ nie = TRUE
          /\ tokenizer \in {EngineTokenizer(vf) : vf \in GoldVocabFiles}
    /\ params = NoParams
    /\ cmds = 0
    /\ threads = << >>
    /\ CmdInit

\* ids = tokenizer.encode(t)
EncodeCall ==
    /\ host = "encode" /\ encoded = << >>
    /\ \E t \in EncodeTexts :
         LET enc == Encode(tokenizer, t, MaxLen)
         IN  /\ text' = t
             /\ encoded' = enc.ids
             /\ tokenizer' = enc.tok
    /\ UNCHANGED << cls, res, gate, answer, exec_calls, trail, ret, error >>
    /\ UNCHANGED << phase, host, nie, rich, cmds, threads, params >>
    /\ UNCHANGED diskVars

\* The caller is done with the ids and comes to its next text.
EncodeReturn ==
    /\ host = "encode" /\ encoded # << >>
    /\ text' = << >>
    /\ encoded' = << >>
    /\ UNCHANGED << cls, res, gate, answer, exec_calls, trail, ret, error >>
    /\ UNCHANGED << phase, host, nie, rich, cmds, threads >>
    /\ UNCHANGED diskVars
    /\ UNCHANGED engineVars

NextEncode == EncodeCall \/ EncodeReturn

SpecEncode == InitEncode /\ [][NextEncode]_vars

\* ------------------------------------------ the balancing step run alone

BalanceBinSeqs == UNION { [1..n -> TrainTexts] : n \in 0..MaxBinLen }

InitBalance ==
    /\ vocab_file = NoVocabFile
    /\ weights_file = NoWeightsFile
    /\ train_runs = 0
    /\ last_run = NoRun
    /\ balance = NoBalance
    /\ training = NoTraining
    /\ phase = "offline"
    /\ host = "balance"
    /\ nie = FALSE
    /\ rich = FALSE
    /\ tokenizer = NoTokenizer
    /\ params = NoParams
    /\ cmds = 0
    /\ threads = << >>
    /\ CmdInit

BalanceStep(b) ==
    /\ balance' = b
    /\ UNCHANGED << vocab_file, weights_file, train_runs, last_run, training >>
    /\ UNCHANGED << phase, host, nie, rich, cmds, threads >>
    /\ UNCHANGED engineVars
    /\ UNCHANGED cmdVars

\* train_gold_standard: raw_data = json.load(f), a dataset whose labels are all
\* intents
LoadDataset ==
    /\ host = "balance" /\ balance.stage = "none"
    /\ \E bins \in [Labels -> BalanceBinSeqs] :
         BalanceStep([balance EXCEPT !.stage = "loaded", !.data = ConcatBins(bins, 0)])

\* train_gold_standard: 1. Dataset Balancing.  max_samples // len(samples)
\* divides by zero at the first empty bin.
BalanceDataset ==
    /\ host = "balance" /\ balance.stage = "loaded"
    /\ IF \E l \in Labels : Len(Bin(balance.data, l)) = 0
       THEN BalanceStep([balance EXCEPT !.stage = "done", !.end = "ZeroDivisionError"])
       ELSE BalanceStep([balance EXCEPT !.stage = "done", !.end = "balanced",
                                        !.balanced = Balance(balance.data)])

NextBalance == LoadDataset \/ BalanceDataset

SpecBalance == InitBalance /\ [][NextBalance]_vars

\* ------------------------------------- concurrent callers of process_command

ThreadIds == 1..NumThreads

ThreadTexts == UNION { [1..n -> InputTokens] : n \in 0..MaxThreadTextLen }

\* A caller before its call.
NewThread ==
    [pc |-> "start", text |-> << >>, i |-> 1, ids |-> << >>, read |-> 0,
     error |-> "none", result |-> NoResult]

\* threading.Thread(target=engine.process_command, ...) on one engine
StartThreads ==
    /\ phase = "offline"
    /\ phase' = "serving"
    /\ host' = "threads"
    /\ nie' = TRUE
    /\ tokenizer' = EngineTokenizer(vocab_file)
    /\ params' = EngineParams(weights_file)
    /\ threads' = [t \in ThreadIds |-> NewThread]
    /\ TrainingOver
    /\ UNCHANGED << rich, cmds >>
    /\ UNCHANGED cmdVars

\* The words encode loops over: words[:max_len]
ThreadWords(th) ==
    LET all == FindWords(th.text) IN SubSeq(all, 1, Min(Len(all), MaxLen))

ThreadStep(t, th, tok) ==
    /\ threads' = [threads EXCEPT ![t] = th]
    /\ tokenizer' = tok
    /\ UNCHANGED << phase, host, nie, rich, cmds, params >>
    /\ UNCHANGED diskVars
    /\ UNCHANGED cmdVars

Running(t) == host = "threads" /\ t \in DOMAIN threads

\* process_command(text) is entered and encode reaches its loop
ThreadCall(t) ==
    /\ Running(t) /\ threads[t].pc = "start"
    /\ \E txt \in ThreadTexts :
         ThreadStep(t, [threads[t] EXCEPT !.pc = "check", !.text = txt], tokenizer)

\* encode: for w in words[:max_len]: if w not in self.word_to_id; after the
\* last word the padding, and forward on the ids
ThreadCheck(t) ==
    /\ Running(t) /\ threads[t].pc = "check"
    /\ LET th == threads[t]
           ws == ThreadWords(th)
       IN  IF th.i > Len(ws)
           THEN LET x   == th.ids \o [k \in 1..(MaxLen - Len(th.ids)) |-> 0]
                    err == ForwardError(params, x)
                IN  IF err # "none"
                    THEN ThreadStep(t, [th EXCEPT !.pc = "done", !.ids = x,
                                                  !.error = err], tokenizer)
                    ELSE \E id \in 0..(params.cols - 1), conf \in ConfLevels :
                           ThreadStep(t, [th EXCEPT !.pc = "done", !.ids = x,
                                                    !.result = Result(id, conf)],
                                      tokenizer)
           ELSE ThreadStep(t, [th EXCEPT !.pc = IF ws[th.i] \in DOMAIN tokenizer.word_to_id
                                                THEN "append" ELSE "add"], tokenizer)

\* _add_word: if word not in self.word_to_id, and the read of self.vocab_size
\* for the assignment that follows
ThreadAdd(t) ==
    /\ Running(t) /\ threads[t].pc = "add"
    /\ LET th == threads[t]
           w  == ThreadWords(th)[th.i]
       IN  IF w \in DOMAIN tokenizer.word_to_id
           THEN ThreadStep(t, [th EXCEPT !.pc = "append"], tokenizer)
           ELSE ThreadStep(t, [th EXCEPT !.pc = "w2i", !.read = tokenizer.vocab_size],
                           tokenizer)

\* _add_word: self.word_to_id[word] = (the vocab_size read)
ThreadStoreWordToId(t) ==
    /\ Running(t) /\ threads[t].pc = "w2i"
    /\ LET th == threads[t]
           w  == ThreadWords(th)[th.i]
       IN  ThreadStep(t, [th EXCEPT !.pc = "i2w"],
                      [tokenizer EXCEPT !.word_to_id = Put(@, w, th.read)])

\* _add_word: self.id_to_word[self.vocab_size] = word
ThreadStoreIdToWord(t) ==
    /\ Running(t) /\ threads[t].pc = "i2w"
    /\ LET th == threads[t]
           w  == ThreadWords(th)[th.i]
       IN  ThreadStep(t, [th EXCEPT !.pc = "inc_read"],
                      [tokenizer EXCEPT !.id_to_word = Put(@, tokenizer.vocab_size, w)])

\* _add_word: self.vocab_size += 1, the read
ThreadIncRead(t) ==
    /\ Running(t) /\ threads[t].pc = "inc_read"
    /\ ThreadStep(t, [threads[t] EXCEPT !.pc = "inc_store", !.read = tokenizer.vocab_size],
                  tokenizer)

\* _add_word: self.vocab_size += 1, the store
ThreadIncStore(t) ==
    /\ Running(t) /\ threads[t].pc = "inc_store"
    /\ ThreadStep(t, [threads[t] EXCEPT !.pc = "append"],
                  [tokenizer EXCEPT !.vocab_size = threads[t].read + 1])

\* encode: ids.append(self.word_to_id[w])
ThreadAppend(t) ==
    /\ Running(t) /\ threads[t].pc = "append"
    /\ LET th == threads[t]
           w  == ThreadWords(th)[th.i]
       IN  ThreadStep(t, [th EXCEPT !.pc = "check", !.i = th.i + 1,
                                    !.ids = Append(th.ids, tokenizer.word_to_id[w])],
                      tokenizer)

NextThreads ==
    \/ RunTrainGoldStandard
    \/ RunTrainBrain
    \/ StartThreads
    \/ \E t \in ThreadIds :
         \/ ThreadCall(t)
         \/ ThreadCheck(t)
         \/ ThreadAdd(t)
         \/ ThreadStoreWordToId(t)
         \/ ThreadStoreIdToWord(t)
         \/ ThreadIncRead(t)
         \/ ThreadIncStore(t)
         \/ ThreadAppend(t)

SpecThreads == Init /\ [][NextThreads]_vars

\* ------------------------------------------- the handlers on keyword inputs

\* The phrases a command is made of: the keywords of the manual interception, a
\* trigger word of the strict mode, and a word that is neither.
Phrases ==
    { << "restart" >>, << "shutdown" >>, << "turn", "off" >>, << "sleep" >>,
      << "status" >>, << "lock" >> }

\* The texts of at most n phrases.
RECURSIVE PhraseTexts(_)
PhraseTexts(n) ==
    IF n = 0 THEN { << >> }
    ELSE LET shorter == PhraseTexts(n - 1)
         IN  shorter \cup { t \o ph : t \in shorter, ph \in Phrases }

KeywordTexts == PhraseTexts(MaxPhrases)

\* A weights file whose w_final has a column for every id up to the largest
\* the gate handles.
WideWeightsFile ==
    WeightsFileOf(EngineVocabRows, 1 + MaxOf(HandledIds), TRUE)

\* A process that serves its last command: run_cmd or the CLI, on an engine built
\* without vocabulary file and with the weights file found, whose commands so far
\* had no new word.
InitServe ==
    /\ vocab_file = NoVocabFile
    /\ weights_file \in {NoWeightsFile, WideWeightsFile}
    /\ train_runs = 0
    /\ last_run = NoRun
    /\ balance = NoBalance
    /\ training = NoTraining
    /\ phase = "serving"
    /\ \/ host = "run_cmd" /\ nie = TRUE /\ rich = FALSE
       \/ host = "cli" /\ nie \in BOOLEAN /\ rich \in BOOLEAN
    /\ tokenizer = IF nie THEN EngineTokenizer(vocab_file) ELSE NoTokenizer
    /\ params = IF nie THEN EngineParams(weights_file) ELSE NoParams
    /\ cmds = MaxCmds - 1
    /\ threads = << >>
    /\ CmdInit

\* run_cmd(text) on a text of keywords
ServeRunCmd == RunCmdClassifyOn(KeywordTexts)

\* _handle_neural_intent(user_input) on an input of keywords
ServeCli == CliClassifyOn(KeywordTexts)

NextServe ==
    \/ ServeRunCmd
    \/ RunCmdGate
    \/ RunCmdAnswer
    \/ ServeCli
    \/ CliGate
    \/ CliAnswer
    \/ NextCommand

SpecServe == InitServe /\ [][NextServe]_vars

\* ------------------------------------- the epochs of train_gold_standard

\* err < 0.5 for err = (error_count / len(balanced_data)) * 100
LowErrorRate(error_count, n) == error_count * 200 < n

InitEpochs ==
    /\ vocab_file = NoVocabFile
    /\ weights_file = NoWeightsFile
    /\ train_runs = 0
    /\ last_run = NoRun
    /\ balance = NoBalance
    /\ training = NoTraining
    /\ phase = "offline"
    /\ host = "epochs"
    /\ nie = FALSE
    /\ rich = FALSE
    /\ tokenizer = NoTokenizer
    /\ params = NoParams
    /\ cmds = 0
    /\ threads = << >>
    /\ CmdInit

TrainingStep(tr) ==
    /\ training' = tr
    /\ UNCHANGED << vocab_file, weights_file, train_runs, last_run, balance >>
    /\ UNCHANGED << phase, host, nie, rich, cmds, threads >>
    /\ UNCHANGED engineVars
    /\ UNCHANGED cmdVars

\* model.save("workspace/engine_core/model_weights.npz") and
\* json.dump(tokenizer.word_to_id, f) into vocab.json, the loop's locals being tr
TrainingSaved(tr) ==
    /\ training' = tr
    /\ vocab_file' = VocabFileOf(tr.tok)
    /\ weights_file' = WeightsFileOf(EngineVocabRows, NumClasses, TRUE)
    /\ UNCHANGED << train_runs, last_run, balance >>
    /\ UNCHANGED << phase, host, nie, rich, cmds, threads >>
    /\ UNCHANGED engineVars
    /\ UNCHANGED cmdVars

\* train_gold_standard comes to its loop with a new tokenizer and a balanced
\* dataset: max_samples entries of each label, whose distinct texts are texts
BeginEpochs ==
    /\ host = "epochs" /\ training.stage = "none"
    /\ \E max_samples \in 1..MaxSamples, texts \in (SUBSET TrainTexts) \ { {} } :
         TrainingStep([stage |-> "top", n |-> NumClasses * max_samples,
                       texts |-> texts, tok |-> NewTokenizer(StandardWords),
                       epoch |-> 0, error_count |-> 0])

\* for epoch in range(epochs): error_count = 0, the shuffle and the steps over
\* balanced_data, which encode its texts in the order the shuffle gave and
\* error_count of which had argmax(probs) != target
RunEpoch ==
    /\ host = "epochs" /\ training.stage = "top"
    /\ \E c \in 0..training.n, order \in OrdersOf(training.texts) :
         TrainingStep([training EXCEPT !.stage = "ran", !.error_count = c,
                                       !.tok = EncodeAll(training.tok, order, 1)])

\* if epoch % 50 == 0: ... if err < 0.5: break; else the next epoch of range(epochs)
EpochCheck ==
    /\ host \in {"epochs", "steps"} /\ training.stage = "ran"
    /\ IF /\ training.epoch % ReportEvery = 0
          /\ LowErrorRate(training.error_count, training.n)
       THEN TrainingStep([training EXCEPT !.stage = "finalize"])
       ELSE IF training.epoch + 1 < Epochs
       THEN TrainingStep([training EXCEPT !.stage = "top", !.epoch = training.epoch + 1])
       ELSE TrainingStep([training EXCEPT !.stage = "finalize"])

\* 3. Finalization: model.save and the dump of the vocabulary
FinishTraining ==
    /\ host \in {"epochs", "steps"} /\ training.stage = "finalize"
    /\ TrainingSaved([training EXCEPT !.stage = "done"])

\* Final Verification and 5. Save Artifacts: the test case is encoded, which adds
\* its new words to the tokenizer, and both files are written again
FinalVerification ==
    /\ host \in {"epochs", "steps"} /\ training.stage = "done"
    /\ TrainingSaved([training EXCEPT
                        !.stage = "verified",
                        !.tok = Encode(training.tok, VerificationText, MaxLen).tok])

NextEpochs ==
    BeginEpochs \/ RunEpoch \/ EpochCheck \/ FinishTraining \/ FinalVerification

SpecEpochs == InitEpochs /\ [][NextEpochs]_vars

\* -------------------------------------- the steps of train_gold_standard
\* A parameter value is a fixed-point number: One stands for 1.0.  The unit is
\* small enough for momentum * v and lr * g to be exact over MaxSteps steps.  The
\* step follows one component of w_final and of its velocity.  A row of w_tok
\* is followed by the number of updates it got; w_pos and the layer matrices
\* likewise.

One == 200 * 10^MaxSteps

\* momentum * v for momentum = 0.9
Momentum(v) == (9 * v) \div 10

\* lr * g for lr = 0.01
Lr(g) == g \div 100

\* The values of a component of outer(pooled, grad_logits): -1.5, -1, 0.5, 2
RawGradients == { -(3 * One) \div 2, -One, One \div 2, 2 * One }

\* The value a component of w_final has after _init_weights: -0.125 or 0.125
InitialWFinal == { -One \div 8, One \div 8 }

\* Mutant: the gradient is used as it is.
ClipNot(g) == g

\* np.clip(g, -1.0, 1.0) on one component
Clip(g) == IF g < -One THEN -One ELSE IF g > One THEN One ELSE g

\* The datasets the steps are followed on: one entry for every label, the text
\* of label 0 and the text of the other labels out of TrainTexts.
StepDatasets ==
    { [k \in 1..NumClasses |-> [text |-> IF k = 1 THEN t ELSE u, label |-> k - 1]] :
        t \in TrainTexts, u \in TrainTexts }

\* Mutant: the nudge does not leave out the PAD id.
RECURSIVE NudgeEvery(_, _, _)
NudgeEvery(w_tok, ids, i) ==
    IF i > Len(ids) THEN w_tok
    ELSE NudgeEvery(Put(w_tok, ids[i],
                        IF ids[i] \in DOMAIN w_tok THEN w_tok[ids[i]] + 1 ELSE 1),
                    ids, i + 1)

\* for cid in ids: if cid != 0: ... model.params['w_tok'][cid] += velocity['w_tok'][cid]
\* w_tok: the rows updated so far, each with the number of its updates.
RECURSIVE Nudge(_, _, _)
Nudge(w_tok, ids, i) ==
    IF i > Len(ids) THEN w_tok
    ELSE IF ids[i] = 0 THEN Nudge(w_tok, ids, i + 1)
    ELSE Nudge(Put(w_tok, ids[i],
                   IF ids[i] \in DOMAIN w_tok THEN w_tok[ids[i]] + 1 ELSE 1),
               ids, i + 1)

InitSteps ==
    /\ vocab_file = NoVocabFile
    /\ weights_file = NoWeightsFile
    /\ train_runs = 0
    /\ last_run = NoRun
    /\ balance = NoBalance
    /\ training = NoTraining
    /\ phase = "offline"
    /\ host = "steps"
    /\ nie = FALSE
    /\ rich = FALSE
    /\ tokenizer = NoTokenizer
    /\ params = NoParams
    /\ cmds = 0
    /\ threads = << >>
    /\ CmdInit

\* 1. Dataset Balancing and 2. Model Setup: balanced_data, the tokenizer, the
\* model after _init_weights, velocity of zeros
BeginSteps ==
    /\ host = "steps" /\ training.stage = "none"
    /\ \E data \in StepDatasets, w \in InitialWFinal :
         TrainingStep([stage |-> "top", epoch |-> 0, steps |-> 0,
                       data |-> Balance(data), n |-> Len(Balance(data)),
                       left |-> {}, error_count |-> 0,
                       tok |-> NewTokenizer(StandardWords),
                       ids |-> << >>, raw |-> 0, g |-> 0,
                       w_final |-> w, velocity |-> 0,
                       w_tok |-> EmptyDict, w_pos |-> 0, layers |-> 0])

\* for epoch in range(epochs): error_count = 0; random.shuffle(balanced_data).
\* left: the entries the loop over the shuffled list has yet to come to.
BeginEpoch ==
    /\ host = "steps" /\ training.stage = "top"
    /\ TrainingStep([training EXCEPT !.stage = "loop", !.error_count = 0,
                                      !.left = DOMAIN training.data])

\* One pass of the body of `for d in balanced_data` on entry i of balanced_data,
\* raw being the component of outer(pooled, grad_logits) its forward pass gave,
\* and miss telling whether argmax(probs) != target.
TrainStepOn(i, raw, miss) ==
    LET enc  == Encode(training.tok, training.data[i].text, MaxLen)
        g    == Clip(raw)
        v    == Momentum(training.velocity) - Lr(g)
        left == training.left \ {i}
    IN  TrainingStep([training EXCEPT !.stage = IF left = {} THEN "ran" ELSE "loop",
                                      !.left = left,
                                      !.error_count = IF miss THEN @ + 1 ELSE @,
                                      !.steps = training.steps + 1,
                                      !.tok = enc.tok,
                                      !.ids = enc.ids,
                                      !.raw = raw,
                                      !.g = g,
                                      !.velocity = v,
                                      !.w_final = training.w_final + v,
                                      !.w_tok = Nudge(training.w_tok, enc.ids, 1)])

TrainStep ==
    /\ host = "steps" /\ training.stage = "loop" /\ training.steps < MaxSteps
    /\ \E i \in training.left, raw \in RawGradients, miss \in BOOLEAN :
         TrainStepOn(i, raw, miss)

NextSteps ==
    \/ BeginSteps
    \/ BeginEpoch
    \/ TrainStep
    \/ EpochCheck
    \/ FinishTraining
    \/ FinalVerification

SpecSteps == InitSteps /\ [][NextSteps]_vars


\* ================================================================== claims

InPipeline == host \in {"run_cmd", "cli"}

\* The confirmation was answered, and the answer is an explicit y.
AnsweredYes == answer # NoAnswer /\ Normalize(answer) = "y"
AnsweredNo  == answer # NoAnswer /\ Normalize(answer) # "y"

\* C1: in run_cmd and in _handle_neural_intent, whenever execute_intent was called
\* for a command, the gate condition held for that command (confidence >= 0.75 and
\* intent name not UNKNOWN, on the result the handler holds), then the user was
\* asked, and the answer was affirmative; the command went Idle, Classified,
\* AwaitingConfirmation, Executed in this order.
C1_ExecuteOnlyAfterGateAndConfirm ==
    (InPipeline /\ exec_calls # << >>) =>
        /\ gate = "pass"
        /\ res.confidence >= 75
        /\ res.intent_name # "UNKNOWN"
        /\ AnsweredYes
        /\ trail = << "Idle", "Classified", "AwaitingConfirmation", "Executed" >>

\* C1 witness: a confirmed command whose action handler was started.
C1_Witness ==
    /\ InPipeline
    /\ Len(exec_calls) = 1
    /\ exec_calls[1].handler = "lock"
    /\ answer = "Y"

\* The id the handler's result holds: the classifier's, unless the CLI's manual
\* interception found a keyword in the input.
C2_HandlerId ==
    IF host = "cli" /\ Contains(text, "restart") THEN 6
    ELSE IF host = "cli" /\ (Contains(text, "shutdown") \/ ContainsTurnOff(text)) THEN 5
    ELSE IF host = "cli" /\ Contains(text, "sleep") THEN 7
    ELSE cls.intent_id

\* C2 (as amended): a command that passed the gate and was confirmed has exactly
\* one call of execute_intent, and its argument is the id of the handler's result:
\* the classifier's id, or in the CLI the id of the keyword found in the input.
C2_ExecutedOnceWithHandlerId ==
    (InPipeline /\ gate = "pass" /\ AnsweredYes) =>
        /\ Len(exec_calls) = 1
        /\ exec_calls[1].id = C2_HandlerId

\* C2 witness: a confirmed CLI command without keyword, executed with the
\* classifier's id.
C2_Witness ==
    /\ host = "cli" /\ gate = "pass" /\ AnsweredYes
    /\ ~Contains(text, "restart")
    /\ Len(exec_calls) = 1
    /\ exec_calls[1].id = cls.intent_id
    /\ cls.intent_id = 3

\* C2 (as claimed): a command that passed the gate and was confirmed has exactly
\* one call of execute_intent, with the intent id the classifier returned.
C2_ExecutedOnceWithClassifierId ==
    (InPipeline /\ gate = "pass" /\ AnsweredYes) =>
        /\ Len(exec_calls) = 1
        /\ exec_calls[1].id = cls.intent_id

\* C3: a command that passed the gate and got a negative answer has no call of
\* execute_intent, is Aborted, raised no error, and the loop can take the next
\* command.
C3_DeclinedNeverExecutes ==
    (InPipeline /\ gate = "pass" /\ AnsweredNo) =>
        /\ exec_calls = << >>
        /\ Stage = "Aborted"
        /\ error = "none"
        /\ phase = "serving"
        /\ ENABLED NextCommand

\* C3 witness: a command declined with "yes", which is not the explicit y.
C3_Witness ==
    /\ InPipeline /\ gate = "pass"
    /\ answer = "yes"
    /\ Stage = "Aborted"

\* C4: the gate passes exactly when confidence >= 0.75 and the intent name is not
\* UNKNOWN; a command for which it fails is Rejected without the user being asked
\* and without execute_intent being called.
C4_GateCondition ==
    (InPipeline /\ gate # "none") =>
        /\ (gate = "pass") <=> (res.confidence >= 75 /\ res.intent_name # "UNKNOWN")
        /\ gate = "fail" =>
              /\ trail = << "Idle", "Classified", "Rejected" >>
              /\ answer = NoAnswer
              /\ exec_calls = << >>

\* C4 witness: a confidence of exactly 0.75 passes the gate.
C4_Witness ==
    /\ InPipeline /\ gate = "pass"
    /\ res.confidence = 75
    /\ Stage = "AwaitingConfirmation"

C5_Paths ==
    { << "Idle", "Classified", "Rejected" >>,
      << "Idle", "Classified", "AwaitingConfirmation", "Executed" >>,
      << "Idle", "Classified", "AwaitingConfirmation", "Aborted" >> }

\* C5: the states a command went through are a prefix of Idle, Classified,
\* Rejected, or of Idle, Classified, AwaitingConfirmation, Executed, or of Idle,
\* Classified, AwaitingConfirmation, Aborted; an answered command is in exactly
\* one of Executed and Aborted.
C5_OnlyGateTransitions ==
    InPipeline =>
        /\ \E p \in C5_Paths : Len(trail) <= Len(p) /\ trail = SubSeq(p, 1, Len(trail))
        /\ answer # NoAnswer => Stage \in {"Executed", "Aborted"}

\* C5 witness: a second command of the same process that ends Aborted.
C5_Witness ==
    /\ InPipeline /\ cmds = 2
    /\ trail = << "Idle", "Classified", "AwaitingConfirmation", "Aborted" >>


\* C6: a call of execute_intent with an id that has no branch (4, or any id outside
\* 0, 1, 2, 3, 5, 6, 7) starts no handler, prints the warning, reports no error and
\* returns normally; every call with a handled id, also after such a call, starts
\* the handler of its id.
C6_UnknownIdIsNoOp ==
    host = "gate" =>
        \A i \in DOMAIN exec_calls :
            LET c == exec_calls[i]
            IN  /\ ~c.raised
                /\ c.id \notin {0, 1, 2, 3, 5, 6, 7} =>
                      c.handler = "none" /\ c.warned /\ ~c.reported
                /\ c.id \in {0, 1, 2, 3, 5, 6, 7} =>
                      c.handler # "none" /\ ~c.warned
                /\ c.id = 0 => c.handler = "lock"
                /\ c.id = 5 => c.handler = "shutdown"

\* C6 witness: execute_intent(4), then execute_intent(9), then execute_intent(0)
\* which locks.
C6_Witness ==
    /\ host = "gate" /\ Len(exec_calls) = 3
    /\ exec_calls[1].id = 4 /\ exec_calls[1].warned
    /\ exec_calls[2].id = 9 /\ exec_calls[2].warned
    /\ exec_calls[3].id = 0 /\ exec_calls[3].handler = "lock"

\* The tokenizer the engine held when its construction ended (the files do not
\* change while it serves).
LoadedTokenizer == EngineTokenizer(vocab_file)

\* C7: while an engine serves commands, its vocabulary (word_to_id, id_to_word,
\* vocab_size) is the one it was constructed with, and a word of the command that
\* is absent from it is encoded as UNK (1).
C7_InferenceKeepsVocabulary ==
    (InPipeline /\ nie) =>
        /\ tokenizer = LoadedTokenizer
        /\ encoded # << >> =>
              \A i \in DOMAIN text :
                  Lower(text[i]) \notin DOMAIN LoadedTokenizer.word_to_id
                      => encoded[i] = 1

\* The words the engine's vocabulary got after construction.
C8_NewWords == (DOMAIN tokenizer.word_to_id) \ (DOMAIN LoadedTokenizer.word_to_id)

\* C8: with concurrent calls of process_command on one engine, the vocabulary
\* stays the loaded one, every finished call has encoded its text as a call alone
\* on the loaded state does, and two different unseen words never hold the same
\* id.
C8_ConcurrentClassifyIsolated ==
    host = "threads" =>
        /\ tokenizer = LoadedTokenizer
        /\ \A t \in DOMAIN threads :
              threads[t].pc = "done" =>
                  threads[t].ids = Encode(LoadedTokenizer, threads[t].text, MaxLen).ids
        /\ \A w1, w2 \in C8_NewWords :
              w1 # w2 => tokenizer.word_to_id[w1] # tokenizer.word_to_id[w2]

\* C9: every id handed to model.forward is smaller than the number of rows of the
\* token-embedding matrix in use, and no training run ends on an embedding lookup
\* out of range.
C9_TokenIdsBelowRows ==
    /\ (InPipeline /\ nie) => \A i \in DOMAIN encoded : encoded[i] < params.rows
    /\ last_run.end # "IndexError"

\* C10: an engine that ended its construction with a vocabulary file and a weights
\* file loaded holds as many words as its token-embedding matrix has rows, and all
\* the matrices forward needs.
C10_LoadedFilesMatch ==
    (phase # "offline" /\ nie /\ vocab_file.exists /\ weights_file.exists) =>
        /\ Cardinality(DOMAIN tokenizer.word_to_id) = params.rows
        /\ params.full

\* The results process_command returns on an engine whose weights were loaded.
C11_LoadedResults ==
    { Result(id, conf) : id \in 0..(NumClasses - 1), conf \in ConfLevels }

\* C11: a result returned by an engine constructed while the vocabulary file or
\* the weights file was missing can be told from every result an engine with
\* loaded weights returns (the engine exposes that it is untrained).
C11_UntrainedIsDistinguishable ==
    (InPipeline /\ nie /\ cls # NoResult
       /\ (~vocab_file.exists \/ ~weights_file.exists))
        => cls \notin C11_LoadedResults

\* C12: an engine constructed while the vocabulary file or the weights file is
\* missing was constructed without failure and holds, before its first command,
\* the default vocabulary and the freshly initialized parameters: never loaded
\* weights with the default vocabulary, nor a loaded vocabulary with fresh weights.
C12_MissingFileMeansFreshEngine ==
    (phase # "offline" /\ nie /\ cmds = 0
       /\ (~vocab_file.exists \/ ~weights_file.exists))
        => /\ phase = "serving"
           /\ tokenizer = NewTokenizer(StandardWords)
           /\ params = [rows |-> EngineVocabRows, cols |-> NumClasses, full |-> TRUE]

\* C13: every training run wrote both the weights file and the vocabulary file,
\* or neither; a run that ended without training (no dataset, or an exception
\* before the save) wrote neither.
C13_FilesWrittenTogether ==
    /\ last_run.wrote \in { {}, {"vocab", "weights"} }
    /\ last_run.end \in {"no dataset", "FileNotFoundError", "ZeroDivisionError"}
          => last_run.wrote = {}
    /\ weights_file.exists => vocab_file.exists

\* The tokenizer a trainer holds when it has written the vocabulary file vf: every
\* word it added got the next id, so vocab_size is the number of words.
TrainerTokenizer(vf) ==
    [ word_to_id |-> vf.word_to_id,
      id_to_word |-> Inverse(vf.word_to_id),
      vocab_size |-> Cardinality(DOMAIN vf.word_to_id) ]

\* C14: the first command of an engine that loaded the files a training run wrote
\* is classified without error on the ids the trainer's tokenizer gives for the
\* same text (the same ids on the same weights give the same classification).
C14_RoundTripSameIds ==
    (InPipeline /\ nie /\ cmds = 1 /\ Len(text) > 0
       /\ vocab_file.exists /\ weights_file.exists
       /\ (encoded # << >> \/ error # "none"))
        => /\ error = "none"
           /\ encoded = Encode(TrainerTokenizer(vocab_file), text, MaxLen).ids

\* C15: for a command of at most max_len lower-case words, decode of the ids
\* encode returned gives the words of the command in order, or UNK in place of a
\* word absent from the vocabulary the engine was constructed with.
C15_DecodeEncodeRoundTrip ==
    (InPipeline /\ nie /\ encoded # << >> /\ Len(text) <= MaxLen
       /\ \A i \in DOMAIN text : Lower(text[i]) = text[i])
        => LET d == Decode(tokenizer, encoded)
           IN  /\ Len(d) = Len(text)
               /\ \A i \in DOMAIN text :
                     \/ d[i] = text[i]
                     \/ /\ d[i] = UNK
                        /\ text[i] \notin DOMAIN LoadedTokenizer.word_to_id

\* C16: every call of encode returns exactly max_len ids: the ids of the first
\* min(n, max_len) words of the text in order, none of them 0, then only PAD (0);
\* the vocabulary after the call is the one before it and the first max_len
\* words, so a later word was neither encoded nor looked up.
C16_EncodeShape ==
    [][ (host = "encode" /\ encoded' # << >>) =>
          LET ws == FindWords(text')
              n  == Min(Len(ws), MaxLen)
          IN  /\ Len(encoded') = MaxLen
              /\ \A i \in 1..n :
                    encoded'[i] = tokenizer'.word_to_id[ws[i]] /\ encoded'[i] # 0
              /\ \A i \in (n + 1)..MaxLen : encoded'[i] = 0
              /\ DOMAIN tokenizer'.word_to_id =
                    (DOMAIN tokenizer.word_to_id) \cup {ws[i] : i \in 1..n} ]_vars

\* C16 witness: a text of 13 words whose last word is unseen: twelve ids, no
\* padding, and the 13th word is not in the vocabulary.
C16_Witness ==
    /\ host = "encode"
    /\ Len(text) = 13 /\ text[13] = "restart"
    /\ encoded = [i \in 1..12 |-> 2]
    /\ "restart" \notin DOMAIN tokenizer.word_to_id

\* Word ids of tokenizer tok are dense.
C17_Dense(tok) ==
    /\ tok.word_to_id[PAD] = 0
    /\ tok.word_to_id[UNK] = 1
    /\ { tok.word_to_id[w] : w \in (DOMAIN tok.word_to_id) \ {PAD, UNK} }
          = 2..(tok.vocab_size - 1)
    /\ Cardinality(DOMAIN tok.word_to_id) = tok.vocab_size
    /\ \A w \in DOMAIN tok.word_to_id : tok.id_to_word[tok.word_to_id[w]] = w

\* C17: on a tokenizer used by a trainer, after any sequence of encode calls PAD
\* has id 0, UNK id 1, the other words exactly the ids 2..vocab_size-1 without gap
\* or duplicate, vocab_size is the number of entries, and no call changes or
\* removes the id of a word.
C17_DenseAppendOnly ==
    /\ [](host = "encode" /\ ~nie => C17_Dense(tokenizer))
    /\ [][ (host = "encode" /\ ~nie) =>
             \A w \in DOMAIN tokenizer.word_to_id :
                 /\ w \in DOMAIN tokenizer'.word_to_id
                 /\ tokenizer'.word_to_id[w] = tokenizer.word_to_id[w] ]_vars

\* C17 witness: a trainer's tokenizer that got two words, in two calls.
C17_Witness ==
    /\ host = "encode" /\ ~nie
    /\ tokenizer.vocab_size = 23
    /\ "restart" \in DOMAIN tokenizer.word_to_id
    /\ "hello" \in DOMAIN tokenizer.word_to_id
    /\ tokenizer.word_to_id["hello"] = 21
    /\ text = << "restart" >>

\* C18: every call of process_command on a text returns a result: no exception,
\* an intent_id that is an index of the NumClasses entries of the distribution,
\* and as confidence the largest entry, which is at least 1/NumClasses and at most
\* 1 in a distribution of non-negative entries that sum to 1.
C18_ClassifyReturnsDistribution ==
    (InPipeline /\ nie /\ encoded # << >>)
        => /\ error = "none"
           /\ cls # NoResult
           /\ cls.intent_id \in 0..(NumClasses - 1)
           /\ cls.confidence * NumClasses >= 100
           /\ cls.confidence <= 100

\* C19: a training run on a dataset with an entry that lacks text or label, or
\* whose label is outside the configured intents, ended on an exception and wrote
\* neither the weights file nor the vocabulary file.
C19_MalformedDatasetFailsRun ==
    last_run.malformed =>
        /\ last_run.end \in {"KeyError", "IndexError", "ZeroDivisionError"}
        /\ last_run.wrote = {}

\* C20: the balancing step, on a dataset whose labels are all intents, ends with
\* a balanced set in which every label has as many entries as the largest class
\* of the dataset, every entry is an entry of the dataset with that label, and
\* every entry of the dataset occurs.
C20_BalancedToLargestClass ==
    (host = "balance" /\ balance.stage = "done") =>
        /\ balance.end = "balanced"
        /\ LET data == balance.data
               bal  == balance.balanced
               m    == MaxOf({Len(Bin(data, l)) : l \in Labels})
           IN  /\ \A l \in Labels : Len(Bin(bal, l)) = m
               /\ \A i \in DOMAIN bal : \E j \in DOMAIN data : bal[i] = data[j]
               /\ \A j \in DOMAIN data : \E i \in DOMAIN bal : bal[i] = data[j]

\* C21: training stops at the end of the first epoch whose misclassification rate
\* is below 0.5%: after an epoch that ended with such a rate the loop is left, and
\* no further epoch is run.
C21_StopsAtFirstLowEpoch ==
    [][ ( /\ host = "epochs"
          /\ training.stage = "ran"
          /\ LowErrorRate(training.error_count, training.n) )
        => training'.stage = "finalize" ]_vars

\* The rows of w_tok that differ between a and b.
C22_ChangedRows(a, b) ==
    { i \in (DOMAIN a) \cup (DOMAIN b) :
        i \notin DOMAIN a \/ i \notin DOMAIN b \/ a[i] # b[i] }

\* The token ids of the example of the last step that are not PAD.
C22_TokenIds(tr) == { tr.ids[i] : i \in DOMAIN tr.ids } \ {0}

\* C22: a training step changes, besides w_final, only the rows of w_tok of the
\* non-PAD ids of its example; the PAD row, w_pos and the attention and
\* feed-forward matrices are never updated, up to the end of training.
C22_StepChangesOnlyItsRows ==
    /\ [] ( (host = "steps" /\ training.stage # "none") =>
              /\ 0 \notin DOMAIN training.w_tok
              /\ training.w_pos = 0
              /\ training.layers = 0 )
    /\ [][ (host = "steps" /\ training.stage # "none") =>
              /\ C22_ChangedRows(training.w_tok, training'.w_tok)
                    \subseteq C22_TokenIds(training')
              /\ training'.w_pos = training.w_pos
              /\ training'.layers = training.layers ]_vars

\* C22 witness: training ended and saved after an epoch of steps on examples with
\* padding, one of which had the new word of id 21, whose row was updated.
C22_Witness ==
    /\ host = "steps" /\ training.stage = "done" /\ training.steps >= 2
    /\ \E i \in DOMAIN training.ids : training.ids[i] = 0
    /\ 21 \in DOMAIN training.w_tok
    /\ 2 \in DOMAIN training.w_tok
    /\ training.velocity # 0

\* C23: in every step the gradient component applied to w_final lies in [-1, 1],
\* the velocity becomes momentum * v - lr * g (0.9 and 0.01), the parameter grows
\* by the new velocity, and so the velocity is at most lr away from momentum * v.
C23_ClippedMomentumStep ==
    [][ ( /\ host = "steps" /\ training.stage = "loop"
          /\ training'.steps = training.steps + 1 ) =>
          /\ -One <= training'.g /\ training'.g <= One
          /\ 100 * training'.velocity = 90 * training.velocity - training'.g
          /\ training'.w_final = training.w_final + training'.velocity
          /\ -One <= 100 * training'.velocity - 90 * training.velocity
          /\ 100 * training'.velocity - 90 * training.velocity <= One ]_vars

\* C23 witness: a step, not the first, whose gradient component was 2.0 and was
\* applied as 1.0 on a velocity that was not zero.
C23_Witness ==
    /\ host = "steps" /\ training.stage \in {"loop", "ran"} /\ training.steps >= 2
    /\ training.raw = 2 * One
    /\ training.g = One
    /\ training.velocity \notin {0, -(One \div 100)}

\* C24: in every state of an engine, after construction and after any calls of
\* process_command, word_to_id is injective, id_to_word is its exact inverse, and
\* vocab_size is greater than every assigned id.
C24_EngineVocabularyOneToOne ==
    (phase # "offline" /\ host \in {"run_cmd", "cli"} /\ nie) =>
        LET w2i == tokenizer.word_to_id
            i2w == tokenizer.id_to_word
        IN  /\ \A v, w \in DOMAIN w2i : w2i[v] = w2i[w] => v = w
            /\ DOMAIN i2w = { w2i[w] : w \in DOMAIN w2i }
            /\ \A w \in DOMAIN w2i : i2w[w2i[w]] = w
            /\ \A w \in DOMAIN w2i : w2i[w] < tokenizer.vocab_size

\* C25: what process_command(text) returns depends only on the text and on the
\* state loaded at construction: whatever calls the engine served before, the ids
\* it hands to the forward pass, which with the loaded parameters make the result,
\* and the exception it raises, if any, are those of an engine just built from the
\* same files.
C25_ResultIndependentOfHistory ==
    (phase # "offline" /\ host \in {"run_cmd", "cli"} /\ nie /\ encoded # << >>) =>
        LET fresh == Encode(EngineTokenizer(vocab_file), text, MaxLen).ids
        IN  /\ encoded = fresh
            /\ error = ForwardError(EngineParams(weights_file), fresh)

\* C26: in run_cmd every call of execute_intent has an id of 0..3, so the
\* shutdown, restart and sleep handlers are never started; a command whose
\* classifier id is 4 or not in INTENTS has the name UNKNOWN and is rejected,
\* whatever the confidence and the weights.
C26_RunCmdExecutesOnlyTableIds ==
    host = "run_cmd" =>
        /\ \A i \in DOMAIN exec_calls :
              /\ exec_calls[i].id \in 0..3
              /\ exec_calls[i].handler \notin {"shutdown", "restart", "sleep"}
        /\ (Stage # "Idle" /\ cls.intent_id \notin 0..3) =>
              /\ cls.intent_name = "UNKNOWN"
              /\ res = cls
              /\ gate \in {"none", "fail"}
              /\ Stage \in {"Classified", "Rejected"}
              /\ answer = NoAnswer

\* C26 witness: run_cmd on 'restart' with weights that give id 6 at full
\* confidence: rejected.
C26_Witness ==
    /\ host = "run_cmd"
    /\ text = << "restart" >>
    /\ cls.intent_id = 6 /\ cls.confidence = 100
    /\ gate = "fail" /\ Stage = "Rejected"

\* Token w is in the input (on inputs whose tokens are whole words).
C27_Has(w) == \E i \in DOMAIN text : text[i] = w

C27_HasTurnOff ==
    \E i \in DOMAIN text : i < Len(text) /\ text[i] = "turn" /\ text[i + 1] = "off"

\* C27: in _handle_neural_intent the result after the interception is RESTART_SYSTEM
\* (6) at confidence 1.0 if the input contains restart, else SHUTDOWN_SYSTEM (5) if
\* it contains shutdown or turn off, else SLEEP_SYSTEM (7) if it contains sleep,
\* else the classifier's result unchanged.
C27_KeywordOverridePrecedence ==
    (host = "cli" /\ nie /\ Stage # "Idle") =>
        /\ C27_Has("restart") =>
              res = [intent_id |-> 6, intent_name |-> "RESTART_SYSTEM", confidence |-> 100]
        /\ (~C27_Has("restart") /\ (C27_Has("shutdown") \/ C27_HasTurnOff)) =>
              res = [intent_id |-> 5, intent_name |-> "SHUTDOWN_SYSTEM", confidence |-> 100]
        /\ ( /\ ~C27_Has("restart") /\ ~C27_Has("shutdown") /\ ~C27_HasTurnOff
             /\ C27_Has("sleep") ) =>
              res = [intent_id |-> 7, intent_name |-> "SLEEP_SYSTEM", confidence |-> 100]
        /\ ( /\ ~C27_Has("restart") /\ ~C27_Has("shutdown") /\ ~C27_HasTurnOff
             /\ ~C27_Has("sleep") ) =>
              res = cls

\* C27 witness: 'turn off restart' classified as LOCK_SYSTEM is executed as
\* RESTART_SYSTEM.
C27_Witness ==
    /\ host = "cli"
    /\ text = << "turn", "off", "restart" >>
    /\ cls.intent_id = 0
    /\ res.intent_id = 6
    /\ Len(exec_calls) = 1 /\ exec_calls[1].handler = "restart"

\* C28: _handle_neural_intent returns True exactly when the user was asked to
\* confirm, whatever the answer; it returns False, without a prompt and without
\* execute_intent, when there is no engine, when the gate condition fails, and
\* when the intent is SYSTEM_STATUS and the input has no trigger word.
C28_TrueIffAsked ==
    host = "cli" =>
        /\ ret = "true" <=> answer # NoAnswer
        /\ ret = "true" =>
              "AwaitingConfirmation" \in { trail[i] : i \in DOMAIN trail }
        /\ ret = "false" =>
              /\ exec_calls = << >>
              /\ "AwaitingConfirmation" \notin { trail[i] : i \in DOMAIN trail }
        /\ ~nie => ret \in {"none", "false"}
        /\ gate = "fail" => ret = "false"
        /\ ( /\ gate = "pass"
             /\ res.intent_name = "SYSTEM_STATUS"
             /\ ~ \E i \in DOMAIN text : text[i] \in TriggerWords ) => ret = "false"

\* C28 witness: a command that passed the gate and was declined returned True.
C28_Witness ==
    /\ host = "cli"
    /\ gate = "pass" /\ answer = "n" /\ Stage = "Aborted"
    /\ exec_calls = << >>
    /\ ret = "true"

\* C29: ask_permission returns true only for an answer that is "y" once it is
\* lower-cased and stripped; after every other answer, the empty one and "yes"
\* among them, the command is aborted and execute_intent is not called.
C29_OnlyExactYConfirms ==
    (InPipeline /\ ~(host = "cli" /\ rich) /\ answer # NoAnswer) =>
        IF answer \in {"y", "Y", " y "}
        THEN Stage = "Executed" /\ Len(exec_calls) = 1
        ELSE Stage = "Aborted" /\ exec_calls = << >>

\* C29 witness: run_cmd asked, the answer was empty, and nothing was executed.
C29_Witness ==
    /\ host = "run_cmd"
    /\ answer = ""
    /\ Stage = "Aborted"
    /\ exec_calls = << >>

\* C30: execute_intent never lets a failure of its handler through: the call
\* reports the error and returns, it started one handler, the command is in its
\* Executed state without error, and the loop can take the next command.
C30_HandlerFailureIsContained ==
    InPipeline =>
        /\ Len(exec_calls) <= 1
        /\ \A i \in DOMAIN exec_calls :
              /\ ~exec_calls[i].raised
              /\ exec_calls[i].reported =>
                    /\ exec_calls[i].id \in {0, 1, 2, 3, 5, 6, 7}
                    /\ exec_calls[i].handler # "none"
                    /\ ~exec_calls[i].warned
              /\ Stage = "Executed"
              /\ error = "none"
              /\ phase = "serving"
              /\ ENABLED NextCommand

\* C30 witness: the lock handler, started for a command of run_cmd, failed and
\* the failure was reported.
C30_Witness ==
    /\ host = "run_cmd" /\ text = << "lock" >>
    /\ Len(exec_calls) = 1
    /\ exec_calls[1].handler = "lock"
    /\ exec_calls[1].reported
    /\ ~exec_calls[1].raised
    /\ phase = "serving"

=============================================================================
